---- MODULE Spec2Model ----
(***************************************************************************)
(* Portfolio API (src/main.py): signup and login over the Credential       *)
(* collection, and the contact, project and timeline handlers over their   *)
(* collections.                                                            *)
(*                                                                         *)
(* The store is a remote service and requests are served concurrently.     *)
(* signup reads the Credential collection and then inserts into it; the    *)
(* two store operations are two steps, and other requests run between      *)
(* them.  A resource handler is one step: requests racing on one record    *)
(* are outside what the handlers promise (last write wins), and the token  *)
(* resolution that precedes a handler reads only the Credential            *)
(* collection, which never shrinks.                                        *)
(*                                                                         *)
(* A handler is an operator from the request to its outcomes in the        *)
(* current state: the response and the state it leaves.  The action of a   *)
(* handler serves one request with one of its outcomes.  The properties    *)
(* speak of the outcomes every request has in every reachable state.       *)
(***************************************************************************)
EXTENDS Integers, Sequences, FiniteSets, TLC

\* ---------------------------------------------------------------- bounds
\* Keys the store hands out in one run (all collections together).
MaxKey == 3

Keys == 1..MaxKey
\* Request-serving processes: each handles one request at a time, so at most
\* this many signups are between their two store operations.
Workers == {"w1", "w2"}

\* ---------------------------------------------------------------- inputs
Usernames == {"alice", "bob"}
Passwords == {"pw1", "pw2"}

\* Bearer tokens a request may carry.  A "valid" token is one the signer
\* accepts; its subject need not (any longer) name a Credential.
NoToken == [kind |-> "missing", sub |-> ""]
Token(u) == [kind |-> "valid", sub |-> u]
Tokens ==
    {NoToken, [kind |-> "malformed", sub |-> ""], [kind |-> "expired", sub |-> "alice"]}
        \cup {Token(u) : u \in Usernames}

\* Query strings.  FastAPI drops query parameters a handler does not declare;
\* `username` is such a parameter, supplied by a client that tries to set
\* the owner.
ContactQueries ==
    { [username |-> "bob", name |-> "n1", label |-> "l1", link |-> "http://x"],
      [username |-> "bob", name |-> "n2", label |-> "l2", link |-> "None"] }

\* Strings are sequences of characters.
ProjectQueries ==
    { [username |-> "bob", title |-> "t1", date |-> "2022", summary |-> "s1",
       stack |-> <<"a", ",", " ", "b", " ", ",", "c">>,          \* "a, b ,c"
       github |-> "gh", demo |-> "dm", image |-> "None"],
      [username |-> "alice", title |-> "t1", date |-> "2022", summary |-> "s1",
       stack |-> <<"a", " ", "b", ",", ",", "c">>,               \* "a b,,c"
       github |-> "gh", demo |-> "dm", image |-> "None"] }

\* acttype is a member of ActType: 'edu' or 'work'.
TimelineQueries ==
    { [username |-> "alice", title |-> "t1", description |-> "d1", place |-> "p1",
       acttype |-> "edu", start_date |-> "2020", end_date |-> "2021",
       date_ |-> "None"],
      [username |-> "alice", title |-> "t2", description |-> "d2", place |-> "p2",
       acttype |-> "work", start_date |-> "None", end_date |-> "None",
       date_ |-> "2022"] }

\* ---------------------------------------------------------------- state
VARIABLES
    db_user,        \* Credential collection: key -> item
    db_contact,     \* key -> item
    db_project,     \* key -> item
    db_timeline,    \* key -> item
    nextKey,        \* next key the store assigns
    pending         \* the signups between their lookup and their insert

vars == <<db_user, db_contact, db_project, db_timeline, nextKey, pending>>

\* A worker is free to take a request.
Free == Cardinality(pending) < Cardinality(Workers)

\* ---------------------------------------------------------------- store
\* deta.Base: put without a key stores a copy of the item under a fresh key
\* (the caller's dict is left as it was), get returns the item or None,
\* update overwrites the given attributes of an existing item, delete
\* removes the key if present, fetch returns the items whose attributes
\* equal the query's.
None == [none |-> TRUE]

Put(db, key, data) == (key :> (data @@ [key |-> key])) @@ db
Get(db, key) == IF key \in DOMAIN db THEN db[key] ELSE None
Update(db, key, data) == [db EXCEPT ![key] = data @@ db[key]]
Delete(db, key) == [k \in DOMAIN db \ {key} |-> db[k]]
Fetch(db, username) == {db[k] : k \in {j \in DOMAIN db : db[j].username = username}}

\* ---------------------------------------------------------------- responses
Envelope(st, ok, msg, data) ==
    [status |-> st, success |-> ok, message |-> msg, data |-> data]
Empty == [empty |-> TRUE]                         \* the dict {}
Pending == [pending |-> TRUE]                     \* no response yet
HTTPException(code, detail) == [http |-> code, detail |-> detail]
InvalidCredentialsException == HTTPException(401, "Invalid credentials")
\* an exception no handler catches: None['username']
ServerError == HTTPException(500, "Internal Server Error")

\* An outcome: the response with the state the request leaves.
Same(resp) ==
    [resp |-> resp, db_user |-> db_user, db_contact |-> db_contact,
     db_project |-> db_project, db_timeline |-> db_timeline,
     nextKey |-> nextKey, pending |-> pending]

\* hashlib.md5(password.encode('utf-8')).hexdigest()
md5(password) ==
    CASE password = "pw1" -> "6e6fdf956d04289354dcf1619e28fe77"
      [] password = "pw2" -> "6d5779b9b85bd4f11e44c9772e0de602"

\* ---------------------------------------------------------------- users
False == [falsy |-> TRUE]

\* get_user with a default user in place of False.
get_user_default(username) ==
    LET items == Fetch(db_user, username)
    IN  IF items = {} THEN {[username |-> username, password |-> ""]} ELSE items

\* The results get_user may return: res.items[0] for the order the store
\* returns the matching items in, False when there is none.
get_user(username) ==
    LET items == Fetch(db_user, username)
    IN  IF items = {} THEN {False} ELSE items

\* user = Depends(manager): the principals the token may resolve to, False
\* for the authentication failure.
ResolveToken(token) ==
    IF token.kind # "valid" THEN {False} ELSE get_user(token.sub)

\* ---------------------------------------------------------------- signup
\* signup without the `if user` test.
signup_unchecked(username, password) ==
    { [Same(Pending) EXCEPT
         !.pending = pending \cup {[op |-> "signup", username |-> username,
                                    password |-> md5(password)]}]
      : user \in get_user(username) }

\* The lookup: the conflict error, or on to the insert.
signup(username, password) ==
    { IF user # False
      THEN Same(HTTPException(400, "User Already Exist"))
      ELSE [Same(Pending) EXCEPT
              !.pending = pending \cup {[op |-> "signup", username |-> username,
                                         password |-> md5(password)]}]
      : user \in get_user(username) }

\* The insert of a signup that found no user.
signup_put(c) ==
    [Same([success |-> c.username]) EXCEPT
       !.db_user = Put(db_user, nextKey,
                       [username |-> c.username, password |-> c.password]),
       !.nextKey = nextKey + 1,
       !.pending = pending \ {c}]

\* ---------------------------------------------------------------- login
login(username, password) ==
    { Same(IF user = False THEN InvalidCredentialsException
           ELSE IF md5(password) # user.password THEN InvalidCredentialsException
           ELSE [access_token |-> Token(username)])
      : user \in get_user(username) }

\* ---------------------------------------------------------------- guard
\* The guard with the record compared to itself.
NotOwner_self(res, user) == res.username # res.username

\* res['username'] != user['username']
NotOwner(res, user) == res.username # user.username

\* ---------------------------------------------------------------- contact
\* The contact with the username the query supplies.
ContactData_query(user, q) ==
    [username |-> q.username, name |-> q.name, label |-> q.label, link |-> q.link]

ContactData(user, q) ==
    [username |-> user.username, name |-> q.name, label |-> q.label, link |-> q.link]

get_contact(username) ==
    { Same(Envelope(200, TRUE, "Fetch contact success", Fetch(db_contact, username))) }

add_contact(token, q) ==
    { IF user = False THEN Same(InvalidCredentialsException)
      ELSE LET data == ContactData(user, q)
           IN  [Same(Envelope(200, TRUE, "Fetch contact success", data)) EXCEPT
                  !.db_contact = Put(db_contact, nextKey, data),
                  !.nextKey = nextKey + 1]
      : user \in ResolveToken(token) }

delete_contact(token, key) ==
    { IF user = False THEN Same(InvalidCredentialsException)
      ELSE LET res == Get(db_contact, key)
           IN  IF res = None THEN Same(ServerError)
               ELSE IF NotOwner(res, user)
               THEN Same(Envelope(401, FALSE,
                                  "Cannot delete another person's contact", Empty))
               ELSE [Same(Envelope(200, TRUE, "Delete contact success", res)) EXCEPT
                       !.db_contact = Delete(db_contact, key)]
      : user \in ResolveToken(token) }

\* update_contact without the ownership guard.
update_contact_unguarded(token, key, q) ==
    { IF user = False THEN Same(InvalidCredentialsException)
      ELSE LET res == Get(db_contact, key)
           IN  IF res = None THEN Same(ServerError)
               ELSE LET data == ContactData(user, q)
                    IN  [Same(Envelope(200, TRUE, "Update contact success", data))
                           EXCEPT !.db_contact = Update(db_contact, key, data)]
      : user \in ResolveToken(token) }

update_contact(token, key, q) ==
    { IF user = False THEN Same(InvalidCredentialsException)
      ELSE LET res == Get(db_contact, key)
           IN  IF res = None THEN Same(ServerError)
               ELSE IF NotOwner(res, user)
               THEN Same(Envelope(401, FALSE,
                                  "Cannot change another person's contact", Empty))
               ELSE LET data == ContactData(user, q)
                    IN  [Same(Envelope(200, TRUE, "Update contact success", data))
                           EXCEPT !.db_contact = Update(db_contact, key, data)]
      : user \in ResolveToken(token) }

\* ---------------------------------------------------------------- project
\* s.replace(' ', '')
replace(s) == SelectSeq(s, LAMBDA ch : ch # " ")

\* s.split(','): the pieces between the commas, empty pieces included
RECURSIVE split(_)
split(s) ==
    IF \A i \in 1..Len(s) : s[i] # ","
    THEN <<s>>
    ELSE LET i == CHOOSE j \in 1..Len(s) :
                      s[j] = "," /\ \A h \in 1..(j - 1) : s[h] # ","
         IN  <<SubSeq(s, 1, i - 1)>> \o split(SubSeq(s, i + 1, Len(s)))

\* The store gets jsonable_encoder(data) and the response another
\* jsonable_encoder(data): two new dicts with the same strings and lists.
ProjectData(user, q) ==
    [username |-> user.username, title |-> q.title, date |-> q.date,
     summary |-> q.summary, stack |-> split(replace(q.stack)),
     github |-> q.github, demo |-> q.demo, image |-> q.image]

get_project(username) ==
    { Same(Envelope(200, TRUE, "Fetch project success", Fetch(db_project, username))) }

add_project(token, q) ==
    { IF user = False THEN Same(InvalidCredentialsException)
      ELSE LET data == ProjectData(user, q)
           IN  [Same(Envelope(200, TRUE, "Add project success", data)) EXCEPT
                  !.db_project = Put(db_project, nextKey, data),
                  !.nextKey = nextKey + 1]
      : user \in ResolveToken(token) }

delete_project(token, key) ==
    { IF user = False THEN Same(InvalidCredentialsException)
      ELSE LET res == Get(db_project, key)
           IN  IF res = None THEN Same(ServerError)
               ELSE IF NotOwner(res, user)
               THEN Same(Envelope(401, FALSE,
                                  "Cannot delete another person's project", Empty))
               ELSE [Same(Envelope(200, TRUE, "Delete project success", res)) EXCEPT
                       !.db_project = Delete(db_project, key)]
      : user \in ResolveToken(token) }

update_project(token, key, q) ==
    { IF user = False THEN Same(InvalidCredentialsException)
      ELSE LET res == Get(db_project, key)
           IN  IF res = None THEN Same(ServerError)
               ELSE IF NotOwner(res, user)
               THEN Same(Envelope(401, FALSE,
                                  "Cannot change another person's project", Empty))
               ELSE LET data == ProjectData(user, q)
                    IN  [Same(Envelope(200, TRUE, "Update project success", data))
                           EXCEPT !.db_project = Update(db_project, key, data)]
      : user \in ResolveToken(token) }

\* ---------------------------------------------------------------- timeline
TimelineData(user, q) ==
    [username |-> user.username, title |-> q.title, description |-> q.description,
     place |-> q.place, type |-> q.acttype, startDate |-> q.start_date,
     endDate |-> q.end_date, date |-> q.date_]

get_timeline(username) ==
    { Same(Envelope(200, TRUE, "Fetch timeline success", Fetch(db_timeline, username))) }

add_timeline(token, q) ==
    { IF user = False THEN Same(InvalidCredentialsException)
      ELSE LET data == TimelineData(user, q)
           IN  [Same(Envelope(200, TRUE, "Add timeline success", data)) EXCEPT
                  !.db_timeline = Put(db_timeline, nextKey, data),
                  !.nextKey = nextKey + 1]
      : user \in ResolveToken(token) }

\* delete_timeline answering success without the db_timeline.delete(key).
delete_timeline_kept(token, key) ==
    { IF user = False THEN Same(InvalidCredentialsException)
      ELSE LET res == Get(db_timeline, key)
           IN  IF res = None THEN Same(ServerError)
               ELSE IF NotOwner(res, user)
               THEN Same(Envelope(401, FALSE,
                                  "Cannot delete another person's timeline", Empty))
               ELSE Same(Envelope(200, TRUE, "Delete timeline success", res))
      : user \in ResolveToken(token) }

delete_timeline(token, key) ==
    { IF user = False THEN Same(InvalidCredentialsException)
      ELSE LET res == Get(db_timeline, key)
           IN  IF res = None THEN Same(ServerError)
               ELSE IF NotOwner(res, user)
               THEN Same(Envelope(401, FALSE,
                                  "Cannot delete another person's timeline", Empty))
               ELSE [Same(Envelope(200, TRUE, "Delete timeline success", res)) EXCEPT
                       !.db_timeline = Delete(db_timeline, key)]
      : user \in ResolveToken(token) }

update_timeline(token, key, q) ==
    { IF user = False THEN Same(InvalidCredentialsException)
      ELSE LET res == Get(db_timeline, key)
           IN  IF res = None THEN Same(ServerError)
               ELSE IF NotOwner(res, user)
               THEN Same(Envelope(401, FALSE,
                                  "Cannot change another person's timeline", Empty))
               ELSE LET data == TimelineData(user, q)
                    IN  [Same(Envelope(200, TRUE, "Update timeline success", data))
                           EXCEPT !.db_timeline = Update(db_timeline, key, data)]
      : user \in ResolveToken(token) }

\* ---------------------------------------------------------------- system
Init ==
    /\ db_user = << >>
    /\ db_contact = << >>
    /\ db_project = << >>
    /\ db_timeline = << >>
    /\ nextKey = 1
    /\ pending = {}

\* One request is served with one of its outcomes.  The store has MaxKey
\* keys to hand out.
Serve(outcomes) ==
    \E out \in outcomes :
      /\ out.nextKey <= MaxKey + 1
      /\ db_user' = out.db_user
      /\ db_contact' = out.db_contact
      /\ db_project' = out.db_project
      /\ db_timeline' = out.db_timeline
      /\ nextKey' = out.nextKey
      /\ pending' = out.pending

Signup ==
    /\ Free
    /\ \E u \in Usernames, p \in Passwords : Serve(signup(u, p))
SignupPut ==
    \E c \in pending : Serve({signup_put(c)})
Login ==
    /\ Free
    /\ \E u \in Usernames, p \in Passwords : Serve(login(u, p))

GetContact ==
    /\ Free
    /\ \E u \in Usernames : Serve(get_contact(u))
AddContact ==
    /\ Free
    /\ \E t \in Tokens, q \in ContactQueries : Serve(add_contact(t, q))
DeleteContact ==
    /\ Free
    /\ \E t \in Tokens, k \in Keys : Serve(delete_contact(t, k))
UpdateContact ==
    /\ Free
    /\ \E t \in Tokens, k \in Keys, q \in ContactQueries :
          Serve(update_contact(t, k, q))

GetProject ==
    /\ Free
    /\ \E u \in Usernames : Serve(get_project(u))
AddProject ==
    /\ Free
    /\ \E t \in Tokens, q \in ProjectQueries : Serve(add_project(t, q))
DeleteProject ==
    /\ Free
    /\ \E t \in Tokens, k \in Keys : Serve(delete_project(t, k))
UpdateProject ==
    /\ Free
    /\ \E t \in Tokens, k \in Keys, q \in ProjectQueries :
          Serve(update_project(t, k, q))

GetTimeline ==
    /\ Free
    /\ \E u \in Usernames : Serve(get_timeline(u))
AddTimeline ==
    /\ Free
    /\ \E t \in Tokens, q \in TimelineQueries : Serve(add_timeline(t, q))
DeleteTimeline ==
    /\ Free
    /\ \E t \in Tokens, k \in Keys : Serve(delete_timeline(t, k))
UpdateTimeline ==
    /\ Free
    /\ \E t \in Tokens, k \in Keys, q \in TimelineQueries :
          Serve(update_timeline(t, k, q))

Next ==
    \/ Signup
    \/ SignupPut
    \/ Login
    \/ GetContact
    \/ AddContact
    \/ DeleteContact
    \/ UpdateContact
    \/ GetProject
    \/ AddProject
    \/ DeleteProject
    \/ UpdateProject
    \/ GetTimeline
    \/ AddTimeline
    \/ DeleteTimeline
    \/ UpdateTimeline

Spec == Init /\ [][Next]_vars

\* ---------------------------------------------------------------- properties
\* The outcomes, in the current state, of the requests on resource r.
Resources == {"contact", "project", "timeline"}

Now == Same(Empty)
dbOf(o, r) ==
    CASE r = "contact" -> o.db_contact
      [] r = "project" -> o.db_project
      [] r = "timeline" -> o.db_timeline
Lists(r, u) ==
    CASE r = "contact" -> get_contact(u)
      [] r = "project" -> get_project(u)
      [] r = "timeline" -> get_timeline(u)
Adds(r, t) ==
    CASE r = "contact" -> UNION {add_contact(t, q) : q \in ContactQueries}
      [] r = "project" -> UNION {add_project(t, q) : q \in ProjectQueries}
      [] r = "timeline" -> UNION {add_timeline(t, q) : q \in TimelineQueries}
Deletes(r, t, k) ==
    CASE r = "contact" -> delete_contact(t, k)
      [] r = "project" -> delete_project(t, k)
      [] r = "timeline" -> delete_timeline(t, k)
Updates(r, t, k) ==
    CASE r = "contact" -> UNION {update_contact(t, k, q) : q \in ContactQueries}
      [] r = "project" -> UNION {update_project(t, k, q) : q \in ProjectQueries}
      [] r = "timeline" -> UNION {update_timeline(t, k, q) : q \in TimelineQueries}
\* Keys a request may name: those of the model and one the store never gave.
AnyKey == Keys \cup {MaxKey + 1}
Mutations(t) ==
    UNION {Adds(r, t) : r \in Resources}
      \cup UNION {Deletes(r, t, k) \cup Updates(r, t, k) : r \in Resources, k \in AnyKey}
\* P holds of every outcome of every request that can be served now.
EveryOutcome(P(_)) ==
    /\ \A u \in Usernames, p \in Passwords :
          \A out \in signup(u, p) \cup login(u, p) : P(out)
    /\ \A c \in pending : P(signup_put(c))
    /\ \A r \in Resources, u \in Usernames : \A out \in Lists(r, u) : P(out)
    /\ \A t \in Tokens : \A out \in Mutations(t) : P(out)

Unchanged(o) == o = Same(o.resp)
\* Outcome o changes at most the collection of resource r.
OnlyChanges(o, r) ==
    /\ \A x \in Resources \ {r} : dbOf(o, x) = dbOf(Now, x)
    /\ o.db_user = db_user
    /\ o.nextKey = nextKey
    /\ o.pending = pending
IsEnvelope(r) == DOMAIN r = {"status", "success", "message", "data"}
IsSuccess(r) == IsEnvelope(r) /\ r.status = 200 /\ r.success
\* {status: 401, success: false, data: {}}
IsRejection(r) ==
    IsEnvelope(r) /\ r.status = 401 /\ r.success = FALSE /\ r.data = Empty

\* The principals token t resolves to.
Principals(t) == ResolveToken(t) \ {False}
\* Token t resolves to a principal who is not the owner of the record under k.
Stranger(t, d, k) ==
    k \in DOMAIN d /\ \E user \in Principals(t) : user.username # d[k].username
\* Token t resolves to the owner of the record under k.
Owner(t, d, k) ==
    /\ k \in DOMAIN d
    /\ Principals(t) # {}
    /\ \A user \in Principals(t) : user.username = d[k].username
\* username u was registered with password p.
Registered(u, p) ==
    \E k \in DOMAIN db_user :
       db_user[k].username = u /\ db_user[k].password = md5(p)

\* C1: in every state, an update or a delete of a stored contact, project or
\* timeline record by an authenticated principal who is not its owner returns
\* the rejection envelope {status: 401, success: false, data: {}} and leaves
\* every record of every collection as it was.
C1_StrangerIsRejected ==
    \A r \in Resources, t \in Tokens, k \in Keys :
       Stranger(t, dbOf(Now, r), k) =>
          \A out \in Deletes(r, t, k) \cup Updates(r, t, k) :
             IsRejection(out.resp) /\ Unchanged(out)

\* A project is stored, a principal other than its owner is registered, and
\* that principal's update of the project is answered with the rejection.
C1_Witness ==
    \E t \in Tokens, k \in Keys, q \in ProjectQueries :
       /\ Stranger(t, db_project, k)
       /\ \E out \in update_project(t, k, q) : IsRejection(out.resp)

\* C2: the Credential collection holds at most one record per username.
C2_UsernameUnique ==
    \A u \in Usernames :
       Cardinality({k \in DOMAIN db_user : db_user[k].username = u}) <= 1

\* C3: in every state, a create on contact, project or timeline by a token
\* that resolves to principal P adds one record, under a fresh key, whose
\* username is P's, whatever username the query supplies; a create by a
\* token that resolves to nobody adds nothing.
C3_OwnerIsCaller ==
    \A r \in Resources, t \in Tokens :
       \A out \in Adds(r, t) :
          \/ Principals(t) = {} /\ Unchanged(out)
          \/ /\ Principals(t) # {}
             /\ nextKey \notin DOMAIN dbOf(Now, r)
             /\ DOMAIN dbOf(out, r) = DOMAIN dbOf(Now, r) \cup {nextKey}
             /\ \A user \in Principals(t) :
                   dbOf(out, r)[nextKey].username = user.username

\* A contact is stored under a username that no contact query supplied: the
\* create stored its caller's.
C3_Witness ==
    \E k \in DOMAIN db_contact :
       /\ db_contact[k].username \notin {q.username : q \in ContactQueries}
       /\ Fetch(db_user, db_contact[k].username) # {}

\* C4: in every state, whatever request is served next, a record that stays
\* in its collection keeps its username, and a key that enters a collection
\* is the fresh key, above every key handed out before: the username under a
\* key is the same from the record's creation to its deletion.
KeepsOwners(out) ==
    /\ out.nextKey >= nextKey
    /\ \A r \in Resources : \A k \in DOMAIN dbOf(out, r) :
          IF k \in DOMAIN dbOf(Now, r)
          THEN dbOf(out, r)[k].username = dbOf(Now, r)[k].username
          ELSE k = nextKey /\ out.nextKey = nextKey + 1
C4_OwnerNeverChanges ==
    /\ \A r \in Resources : \A k \in DOMAIN dbOf(Now, r) : k < nextKey
    /\ EveryOutcome(KeepsOwners)

\* The owner of a stored contact updates it with a query that supplies
\* another username; the update succeeds and the contact stays the owner's.
C4_Witness ==
    \E t \in Tokens, k \in Keys, q \in ContactQueries :
       /\ Owner(t, db_contact, k)
       /\ q.username # db_contact[k].username
       /\ \E out \in update_contact(t, k, q) :
             /\ IsSuccess(out.resp)
             /\ out.db_contact[k].username = db_contact[k].username

\* C5: a login with a registered username and password returns a token that
\* resolves to that username, and a login with the username and any other
\* password fails with the invalid-credentials error.
C5_LoginRoundTrip ==
    \A u \in Usernames, p \in Passwords :
       Registered(u, p) =>
          /\ \A out \in login(u, p) :
                /\ out.resp = [access_token |-> Token(u)]
                /\ \A user \in ResolveToken(Token(u)) :
                      user # False /\ user.username = u
          /\ \A q \in Passwords \ {p} :
                \A out \in login(u, q) : out.resp = InvalidCredentialsException

\* C6: in every state, a signup with a username that is registered fails
\* with the conflict error (400), whatever the password, and changes nothing:
\* no credential is added and none is modified.
C6_SignupConflict ==
    \A u \in Usernames, p \in Passwords :
       Fetch(db_user, u) # {} =>
          \A out \in signup(u, p) :
             /\ out.resp = HTTPException(400, "User Already Exist")
             /\ Unchanged(out)

\* A username is registered, and a signup with it and a password it was not
\* registered with is refused.
C6_Witness ==
    \E u \in Usernames, p \in Passwords :
       /\ Fetch(db_user, u) # {}
       /\ ~Registered(u, p)
       /\ \E out \in signup(u, p) :
             out.resp = HTTPException(400, "User Already Exist")

C8_CreateReturnsKey ==
    \A r \in Resources, t \in Tokens :
       \A out \in Adds(r, t) :
          IsSuccess(out.resp) =>
             /\ "key" \in DOMAIN out.resp.data
             /\ out.resp.data = dbOf(out, r)[nextKey]

\* C9: in every state, a delete of a stored record by its owner removes the
\* record under that key and nothing else, and returns the success envelope
\* with the record as it was; a list returns only records that are stored,
\* and no request brings a key back that was handed out before, so that the
\* record is in no later list.
NoKeyComesBack(out) ==
    \A r \in Resources : \A k \in DOMAIN dbOf(out, r) \ DOMAIN dbOf(Now, r) :
       k = nextKey /\ \A j \in DOMAIN dbOf(Now, r) : j < k
C9_OwnerDeletes ==
    /\ EveryOutcome(NoKeyComesBack)
    /\ \A r \in Resources :
       /\ \A t \in Tokens, k \in Keys :
             Owner(t, dbOf(Now, r), k) =>
                \A out \in Deletes(r, t, k) :
                   /\ IsSuccess(out.resp)
                   /\ out.resp.data = dbOf(Now, r)[k]
                   /\ dbOf(out, r) = [j \in DOMAIN dbOf(Now, r) \ {k} |-> dbOf(Now, r)[j]]
                   /\ OnlyChanges(out, r)
       /\ \A u \in Usernames : \A out \in Lists(r, u) :
             out.resp.data = {dbOf(Now, r)[k] :
                                k \in {j \in DOMAIN dbOf(Now, r) :
                                          dbOf(Now, r)[j].username = u}}

\* A key the store handed out is in no collection any more, while another
\* record is still stored: a record was deleted and only that one.
C9_Witness ==
    /\ \E k \in Keys :
          /\ k < nextKey
          /\ k \notin DOMAIN db_user
          /\ \A r \in Resources : k \notin DOMAIN dbOf(Now, r)
    /\ \E r \in Resources : dbOf(Now, r) # << >>

\* The pieces of s between its commas, each without the spaces around it,
\* the empty ones left out.
RECURSIVE Trim(_)
Trim(s) ==
    IF s = << >> THEN s
    ELSE IF Head(s) = " " THEN Trim(Tail(s))
    ELSE IF s[Len(s)] = " " THEN Trim(SubSeq(s, 1, Len(s) - 1))
    ELSE s
RECURSIVE Pieces(_)
Pieces(s) ==
    IF \A i \in 1..Len(s) : s[i] # ","
    THEN <<s>>
    ELSE LET i == CHOOSE j \in 1..Len(s) :
                      s[j] = "," /\ \A h \in 1..(j - 1) : s[h] # ","
         IN  <<SubSeq(s, 1, i - 1)>> \o Pieces(SubSeq(s, i + 1, Len(s)))
TrimmedTokens(s) ==
    LET ps == Pieces(s)
    IN  SelectSeq([i \in 1..Len(ps) |-> Trim(ps[i])], LAMBDA x : x # << >>)

\* C10: the stack stored by a project create or update is the sequence of
\* the stack string's comma-separated tokens, each trimmed of the spaces
\* around it, in their order, with no empty token.
C10_StackNormalized ==
    \A t \in Tokens, q \in ProjectQueries :
       /\ \A out \in add_project(t, q) :
             IsSuccess(out.resp) =>
                out.db_project[nextKey].stack = TrimmedTokens(q.stack)
       /\ \A k \in Keys : \A out \in update_project(t, k, q) :
             IsSuccess(out.resp) =>
                out.db_project[k].stack = TrimmedTokens(q.stack)
====
